---------------------------- MODULE Spec2Model ----------------------------
(***************************************************************************)
(* A model of tplot's Figure (src/tplot/figure.py): construction, the      *)
(* deferred registration of scatter/line/bar/hbar plots, the lazily cached *)
(* scales and tick sets, and the draw pass onto a numpy character canvas.  *)
(*                                                                         *)
(* Strings are sequences of one-character strings.  Numbers on an axis are *)
(* integers counting tenths (the data value 3 is 30), so that tick steps   *)
(* of 0.1, 0.2 and 0.5 are exact; positions on the canvas are rationals    *)
(* <<numerator, denominator>> until the code rounds them.                  *)
(***************************************************************************)
EXTENDS Integers, Sequences, FiniteSets, TLC

VARIABLES
    constructed,        \* FALSE before Figure.__init__ has returned
    xlabel, ylabel, title, legendloc, xticklabel_length, width, height,
    plots,              \* self._plots: the deferred drawers, as their captured arguments
    labels,             \* self._labels: <<marker, label>> pairs
    cache,              \* the functools.cached_property slots of the instance
    canvas,             \* self._canvas: a sequence of rows, each a sequence of characters
    call,               \* the last call made on the Figure and its arguments
    result,             \* how that call ended: "ok" or the name of the exception raised
    output,             \* what the last __repr__ returned (<<>> when it raised)
    prev,               \* <<result, output>> of the __repr__ before, if no call came between
    drawnWith           \* how many plots were registered at the first __repr__ (-1: none yet)

vars == <<constructed, xlabel, ylabel, title, legendloc, xticklabel_length, width, height,
          plots, labels, cache, canvas, call, result, output, prev, drawnWith>>

-----------------------------------------------------------------------------
(* Bounds of the model.                                                    *)

\* Plots registered on one Figure.
MaxPlots == 2
\* The terminal size the environment reports to get_terminal_size.
TermWidth == 18
TermHeight == 11
\* The explicit canvas size a caller passes.
CanvasWidth == 20
CanvasHeight == 10

-----------------------------------------------------------------------------
(* Python and numpy primitives.                                            *)

Min2(a, b) == IF a <= b THEN a ELSE b
Max2(a, b) == IF a >= b THEN a ELSE b

SeqMin(s) == CHOOSE m \in {s[i] : i \in 1..Len(s)} : \A i \in 1..Len(s) : m <= s[i]
SeqMax(s) == CHOOSE m \in {s[i] : i \in 1..Len(s)} : \A i \in 1..Len(s) : m >= s[i]

Abs(n) == IF n < 0 THEN -n ELSE n

\* math.ceil(a / b) for b > 0.
CeilDiv(a, b) == -((-a) \div b)

\* Python's int() of the rational q: truncation towards zero.
PyInt(q) == IF q[1] >= 0 THEN q[1] \div q[2] ELSE -((-q[1]) \div q[2])

\* Python's round() of the rational q (denominator > 0): to the nearest integer,
\* a tie to the even one.
PyRound(q) ==
    LET fl == q[1] \div q[2]
        twice == 2 * (q[1] - fl * q[2])
    IN  IF twice < q[2] THEN fl
        ELSE IF twice > q[2] THEN fl + 1
        ELSE IF fl % 2 = 0 THEN fl ELSE fl + 1

Repeat(ch, n) == [i \in 1..Max2(n, 0) |-> ch]

\* s[:n]
Take(s, n) == IF n >= 0 THEN SubSeq(s, 1, Min2(n, Len(s)))
              ELSE SubSeq(s, 1, Max2(Len(s) + n, 0))

\* str.ljust, str.rjust, str.center (CPython puts the odd padding cell on the
\* left when the padding and the width are both odd).
Ljust(s, n, fill) == s \o Repeat(fill, n - Len(s))
Rjust(s, n, fill) == Repeat(fill, n - Len(s)) \o s
Center(s, n, fill) ==
    IF Len(s) >= n THEN s
    ELSE LET marg == n - Len(s)
             left == (marg \div 2) + (IF marg % 2 = 1 /\ n % 2 = 1 THEN 1 ELSE 0)
         IN  Repeat(fill, left) \o s \o Repeat(fill, marg - left)

\* An integer index i on an axis of length n.
IndexOk(i, n) == -n <= i /\ i < n
NormIndex(i, n) == IF i < 0 THEN i + n ELSE i

\* slice(a, b).indices(n): <<start, stop>> with start <= stop.
Clamp(i, n) == IF i < 0 THEN Max2(i + n, 0) ELSE Min2(i, n)
SliceBounds(a, b, n) ==
    LET lo == Clamp(a, n)
        hi == Clamp(b, n)
    IN  <<lo, Max2(lo, hi)>>


-----------------------------------------------------------------------------
(* tplot.utils and tplot.scales, as the specification describes them.      *)

\* is_numerical(values): whether the whole collection is numeric.  A plot
\* carries, per axis, whether the values the caller passed are labels.
is_numerical(cats) == \A i \in 1..Len(cats) : ~cats[i]

\* The nice steps {1, 2, 5} x 10^k, in tenths: 0.1 up to 500.
StepCandidates == <<1, 2, 5, 10, 20, 50, 100, 200, 500, 1000, 2000, 5000>>

\* The smallest nice step with ceil(range / step) + 1 <= most.
NiceStep(range, most) ==
    StepCandidates[CHOOSE i \in 1..Len(StepCandidates) :
                       /\ CeilDiv(range, StepCandidates[i]) + 1 <= most
                       /\ \A j \in 1..(i - 1) : CeilDiv(range, StepCandidates[j]) + 1 > most]

\* The multiples of step from the largest one <= lo to the smallest one >= hi.
TicksWithStep(lo, hi, step) ==
    [i \in 1..((CeilDiv(hi, step) * step - (lo \div step) * step) \div step + 1) |->
        (lo \div step) * step + (i - 1) * step]

\* best_ticks(min, max, most): the smallest nice step with
\* ceil((max - min) / step) + 1 <= most, ticks at its multiples from the
\* largest one <= min to the smallest one >= max; one tick when min = max.
best_ticks(lo, hi, most) ==
    IF lo = hi THEN <<lo>>
    ELSE TicksWithStep(lo, hi, NiceStep(hi - lo, Max2(most, 2)))

\* LinearScale.fit(values, target_min, target_max).
LinearFit(values, tmin, tmax) ==
    [dmin |-> SeqMin(values), dmax |-> SeqMax(values), tmin |-> tmin, tmax |-> tmax]

\* LinearScale.transform(value): the affine map of the fitted domain onto the
\* target range, the midpoint of the target range when the domain is one value.
Transform(scale, v) ==
    IF scale.dmin = scale.dmax THEN <<scale.tmin + scale.tmax, 2>>
    ELSE <<scale.tmin * (scale.dmax - scale.dmin) + (v - scale.dmin) * (scale.tmax - scale.tmin),
           scale.dmax - scale.dmin>>

Sign(n) == IF n > 0 THEN 1 ELSE IF n < 0 THEN -1 ELSE 0

\* plot_line_segment(x0, y0, x1, y1): the integer (Bresenham) path from the
\* first point to the last, 8-connected, both end points included.
RECURSIVE LineFrom(_, _, _, _, _)
LineFrom(x, y, x1, y1, e) ==
    IF x = x1 /\ y = y1 THEN << <<x, y>> >>
    ELSE LET dx == e[2]
             dy == e[3]
             stepx == 2 * e[1] >= dy
             stepy == 2 * e[1] <= dx
             nx == IF stepx THEN x + Sign(x1 - x) ELSE x
             ny == IF stepy THEN y + Sign(y1 - y) ELSE y
             ne == e[1] + (IF stepx THEN dy ELSE 0) + (IF stepy THEN dx ELSE 0)
         IN  << <<x, y>> >> \o LineFrom(nx, ny, x1, y1, <<ne, dx, dy>>)

plot_line_segment(x0, y0, x1, y1) ==
    LET dx == Abs(x1 - x0)
        dy == -Abs(y1 - y0)
    IN  LineFrom(x0, y0, x1, y1, <<dx + dy, dx, dy>>)

-----------------------------------------------------------------------------
(* Figure: the values derived from the registered plots.                   *)

Digit(d) == <<"0", "1", "2", "3", "4", "5", "6", "7", "8", "9">>[d + 1]

\* f"{value:.2g}" of a non-negative number of tenths below 1000.0.
FmtAbs(a) ==
    IF a = 0 THEN <<"0">>
    ELSE IF a < 10 THEN <<"0", ".", Digit(a)>>
    ELSE IF a < 100 THEN
        IF a % 10 = 0 THEN <<Digit(a \div 10)>>
        ELSE <<Digit(a \div 10), ".", Digit(a % 10)>>
    ELSE LET wide == a >= 1000
             n == IF wide THEN PyRound(<<a, 100>>) ELSE PyRound(<<a, 10>>)
             expo == IF wide THEN (IF n >= 100 THEN 3 ELSE 2) ELSE 2
             mant == IF n >= 100 THEN 10 ELSE n
         IN  IF ~wide /\ n < 100 THEN <<Digit(n \div 10), Digit(n % 10)>>
             ELSE (IF mant % 10 = 0 THEN <<Digit(mant \div 10)>>
                   ELSE <<Digit(mant \div 10), ".", Digit(mant % 10)>>)
                  \o <<"e", "+", "0", Digit(expo)>>

\* Figure._fmt
Fmt(value) == IF value < 0 THEN <<"-">> \o FmtAbs(-value) ELSE FmtAbs(value)

RECURSIVE Flatten(_)
Flatten(ss) == IF ss = <<>> THEN <<>> ELSE Head(ss) \o Flatten(Tail(ss))

\* Figure.x, Figure.y: the values of every registered plot, in order; and
\* whether each was passed as a label.
FigX == Flatten([i \in 1..Len(plots) |-> plots[i].x])
FigY == Flatten([i \in 1..Len(plots) |-> plots[i].y])
FigXCat == Flatten([i \in 1..Len(plots) |-> [j \in 1..Len(plots[i].x) |-> plots[i].xcat]])
FigYCat == Flatten([i \in 1..Len(plots) |-> [j \in 1..Len(plots[i].y) |-> plots[i].ycat]])

\* set(values), listed in increasing order of the label's number.
RECURSIVE SortedSeq(_)
SortedSeq(S) == IF S = {} THEN <<>>
                ELSE LET m == CHOOSE a \in S : \A b \in S : a <= b
                     IN  <<m>> \o SortedSeq(S \ {m})
LabelSet(values) == SortedSeq({values[i] : i \in 1..Len(values)})

\* Figure._xax_height
XaxHeight == 2 + (IF xlabel # <<>> THEN 1 ELSE 0)

-----------------------------------------------------------------------------
(* The cached properties.  A slot is <<>> until its property has returned  *)
(* once, and <<value>> from then on.  A context ctx carries the slots c,   *)
(* the canvas cv and the exception err raised so far ("none": none).       *)

CacheEmpty == [ytick |-> <<>>, yaw |-> <<>>, xtick |-> <<>>, xscale |-> <<>>, yscale |-> <<>>]

Truthy(s) == IF s # <<>> THEN 1 ELSE 0

Fail(ctx, e) == IF ctx.err # "none" THEN ctx ELSE [ctx EXCEPT !.err = e]

\* functools.cached_property: the stored value on a hit, the computed context
\* otherwise.
Cached(ctx, slot, computed) == IF ctx.err # "none" \/ slot # <<>> THEN ctx ELSE computed

\* Figure._ytick_values
NeedYTicks(ctx) ==
    Cached(ctx, ctx.c.ytick,
        IF is_numerical(FigYCat) THEN
            IF FigY = <<>> THEN Fail(ctx, "ValueError")
            ELSE [ctx EXCEPT !.c.ytick =
                    << [cat |-> FALSE,
                        v |-> best_ticks(SeqMin(FigY), SeqMax(FigY), height \div 2)] >>]
        ELSE [ctx EXCEPT !.c.ytick = << [cat |-> TRUE, v |-> LabelSet(FigY)] >>])

\* Figure._xtick_values
NeedXTicks(ctx) ==
    Cached(ctx, ctx.c.xtick,
        IF is_numerical(FigXCat) THEN
            IF FigX = <<>> THEN Fail(ctx, "ValueError")
            ELSE IF xticklabel_length = 0 THEN Fail(ctx, "ZeroDivisionError")
            ELSE [ctx EXCEPT !.c.xtick =
                    << [cat |-> FALSE,
                        v |-> best_ticks(SeqMin(FigX), SeqMax(FigX),
                                         width \div xticklabel_length)] >>]
        ELSE [ctx EXCEPT !.c.xtick = << [cat |-> TRUE, v |-> LabelSet(FigX)] >>])

\* The longest formatted tick label.
LabelWidth(ticks) == SeqMax([i \in 1..Len(ticks) |-> Len(Fmt(ticks[i]))])

YaxWidthFrom(a) ==
    IF a.err # "none" THEN a
    ELSE IF a.c.ytick[1].cat THEN Fail(a, "ValueError")
    ELSE [a EXCEPT !.c.yaw = << LabelWidth(a.c.ytick[1].v) + 1 + Truthy(ylabel) * 2 >>]

\* Figure._yax_width: formatting a label with .2g raises ValueError.
NeedYaxWidth(ctx) == Cached(ctx, ctx.c.yaw, YaxWidthFrom(NeedYTicks(ctx)))

NominalScale == [cat |-> TRUE, dmin |-> 0, dmax |-> 0, tmin |-> 0, tmax |-> 0]

\* A LinearScale fitted, last, to `values`.
Linear(values, tmin, tmax) ==
    [cat |-> FALSE, dmin |-> LinearFit(values, tmin, tmax).dmin,
     dmax |-> LinearFit(values, tmin, tmax).dmax, tmin |-> tmin, tmax |-> tmax]

XScaleRefit(b) ==
    IF b.err # "none" THEN b
    ELSE [b EXCEPT !.c.xscale = << Linear(b.c.xtick[1].v, b.c.yaw[1], width - 1) >>]

XScaleFrom(a) ==
    IF a.err # "none" THEN a
    ELSE IF ~is_numerical(FigXCat) THEN [a EXCEPT !.c.xscale = <<NominalScale>>]
    ELSE XScaleRefit(NeedXTicks(a))

\* Figure._xscale: fitted to the x values between the y axis and the last
\* column, then, when numeric, fitted again to the tick values.
NeedXScale(ctx) == Cached(ctx, ctx.c.xscale, XScaleFrom(NeedYaxWidth(ctx)))

YScaleRefit(a) ==
    IF a.err # "none" THEN a
    ELSE [a EXCEPT !.c.yscale =
            << Linear(a.c.ytick[1].v, XaxHeight - Truthy(xlabel) + 1,
                      height - 1 - Truthy(title)) >>]

\* Figure._yscale: fitted to the y values between the x axis and the top row
\* (below the title), then, when numeric, fitted again to the tick values.
NeedYScale(ctx) ==
    Cached(ctx, ctx.c.yscale,
        IF ~is_numerical(FigYCat) THEN [ctx EXCEPT !.c.yscale = <<NominalScale>>]
        ELSE YScaleRefit(NeedYTicks(ctx)))

\* self._xscale.transform(v), self._yscale.transform(v) once the slots are filled.
TX(ctx, v) == Transform(ctx.c.xscale[1], v)
TY(ctx, v) == Transform(ctx.c.yscale[1], v)

-----------------------------------------------------------------------------
(* Writes to the numpy canvas.  Rows and columns are numbered from 0 as in *)
(* the code; cv[r + 1][c + 1] is the cell at row r, column c.              *)

\* The assignment of a list to a slice of a Python list: the slice is replaced
\* by the list, whatever their lengths.
ListAssign(run, vals) == [ok |-> TRUE, cells |-> vals]

\* numpy's assignment of the list vals to a one-dimensional selection that
\* holds `run`: the list must have the selection's length, or length 1 (it is
\* then broadcast); otherwise ValueError.
AssignRun(run, vals) ==
    IF Len(vals) = Len(run) THEN [ok |-> TRUE, cells |-> vals]
    ELSE IF Len(vals) = 1 THEN [ok |-> TRUE, cells |-> Repeat(vals[1], Len(run))]
    ELSE [ok |-> FALSE, cells |-> run]

Splice(row, lo, hi, cells) == SubSeq(row, 1, lo) \o cells \o SubSeq(row, hi + 1, Len(row))

\* canvas[r, c] = ch
SetCell(ctx, r, c, ch) ==
    IF ctx.err # "none" THEN ctx
    ELSE IF ~IndexOk(r, Len(ctx.cv)) THEN Fail(ctx, "IndexError")
    ELSE LET rr == NormIndex(r, Len(ctx.cv)) + 1
             n == Len(ctx.cv[rr])
         IN  IF ~IndexOk(c, n) THEN Fail(ctx, "IndexError")
             ELSE [ctx EXCEPT !.cv[rr][NormIndex(c, n) + 1] = ch]

\* canvas[r, a:b] = vals, vals a list
SetRowSlice(ctx, r, a, b, vals) ==
    IF ctx.err # "none" THEN ctx
    ELSE IF ~IndexOk(r, Len(ctx.cv)) THEN Fail(ctx, "IndexError")
    ELSE LET rr == NormIndex(r, Len(ctx.cv)) + 1
             row == ctx.cv[rr]
             sb == SliceBounds(a, b, Len(row))
             got == AssignRun(SubSeq(row, sb[1] + 1, sb[2]), vals)
         IN  IF ~got.ok THEN Fail(ctx, "ValueError")
             ELSE [ctx EXCEPT !.cv[rr] = Splice(row, sb[1], sb[2], got.cells)]

\* canvas[r, a:b] = ch, ch one character
FillRowSlice(ctx, r, a, b, ch) ==
    IF ctx.err # "none" THEN ctx
    ELSE IF ~IndexOk(r, Len(ctx.cv)) THEN Fail(ctx, "IndexError")
    ELSE LET rr == NormIndex(r, Len(ctx.cv)) + 1
             row == ctx.cv[rr]
             sb == SliceBounds(a, b, Len(row))
         IN  [ctx EXCEPT !.cv[rr] = [i \in 1..Len(row) |->
                                        IF sb[1] < i /\ i <= sb[2] THEN ch ELSE row[i]]]

\* The number of columns of the array.
Columns(cv) == IF cv = <<>> THEN 0 ELSE Len(cv[1])

\* canvas[a:b, c] = ch, ch one character
FillColSlice(ctx, a, b, c, ch) ==
    IF ctx.err # "none" THEN ctx
    ELSE IF ~IndexOk(c, Columns(ctx.cv)) THEN Fail(ctx, "IndexError")
    ELSE LET sb == SliceBounds(a, b, Len(ctx.cv))
             cc == NormIndex(c, Columns(ctx.cv)) + 1
         IN  [ctx EXCEPT !.cv = [i \in 1..Len(ctx.cv) |->
                                    IF sb[1] < i /\ i <= sb[2]
                                    THEN [ctx.cv[i] EXCEPT ![cc] = ch] ELSE ctx.cv[i]]]

\* canvas[a:b, c] = vals, vals a list
SetColSlice(ctx, a, b, c, vals) ==
    IF ctx.err # "none" THEN ctx
    ELSE IF ~IndexOk(c, Columns(ctx.cv)) THEN Fail(ctx, "IndexError")
    ELSE LET sb == SliceBounds(a, b, Len(ctx.cv))
             cc == NormIndex(c, Columns(ctx.cv)) + 1
             run == [i \in 1..(sb[2] - sb[1]) |-> ctx.cv[sb[1] + i][cc]]
             got == AssignRun(run, vals)
         IN  IF ~got.ok THEN Fail(ctx, "ValueError")
             ELSE [ctx EXCEPT !.cv = [i \in 1..Len(ctx.cv) |->
                                        IF sb[1] < i /\ i <= sb[2] /\ i - sb[1] <= Len(got.cells)
                                        THEN [ctx.cv[i] EXCEPT ![cc] = got.cells[i - sb[1]]]
                                        ELSE ctx.cv[i]]]

\* The length of the view canvas[r, a:b] (0 when r is no row: the write that
\* follows raises).
RowViewLen(ctx, r, a, b) ==
    IF ctx.err # "none" \/ ~IndexOk(r, Len(ctx.cv)) THEN 0
    ELSE LET n == Len(ctx.cv[NormIndex(r, Len(ctx.cv)) + 1])
             sb == SliceBounds(a, b, n)
         IN  sb[2] - sb[1]

\* Figure._center_draw, _ljust_draw, _rjust_draw on the view canvas[r, a:b]
CenterDraw(ctx, string, r, a, b) ==
    SetRowSlice(ctx, r, a, b, Center(string, RowViewLen(ctx, r, a, b), " "))
LjustDraw(ctx, string, r, a, b) ==
    SetRowSlice(ctx, r, a, b, Ljust(string, RowViewLen(ctx, r, a, b), " "))
RjustDraw(ctx, string, r, a, b) ==
    SetRowSlice(ctx, r, a, b, Rjust(string, RowViewLen(ctx, r, a, b), " "))

\* Figure._center_draw on the view canvas[a:b, c]
CenterDrawCol(ctx, string, a, b, c) ==
    LET sb == SliceBounds(a, b, Len(ctx.cv))
    IN  SetColSlice(ctx, a, b, c, Center(string, sb[2] - sb[1], " "))

-----------------------------------------------------------------------------
(* The draw pass.                                                          *)

Last(s) == s[Len(s)]

\* One turn of the loop of Figure._draw_x_axis: the tick at column pos.
XTick(ctx, pos, label, start, end) ==
    IF pos = start
    THEN LjustDraw(ctx, Take(label, xticklabel_length - xticklabel_length \div 2),
                   -XaxHeight + 1, pos, pos + (xticklabel_length - xticklabel_length \div 2))
    ELSE IF pos = end
    THEN RjustDraw(ctx, Take(label, xticklabel_length \div 2 + 1),
                   -XaxHeight + 1, pos - xticklabel_length \div 2, pos + 1)
    ELSE CenterDraw(ctx, Take(label, xticklabel_length), -XaxHeight + 1,
                    pos - xticklabel_length \div 2,
                    pos + (xticklabel_length - xticklabel_length \div 2))

XTickAt(ctx, pos, label, start, end) ==
    XTick(SetCell(ctx, -XaxHeight, pos, "+"), pos, label, start, end)

\* The loop of Figure._draw_x_axis over the ticks from the i-th on.
RECURSIVE XTickLoop(_, _, _, _, _)
XTickLoop(ctx, ticks, i, start, end) ==
    IF i > Len(ticks) \/ ctx.err # "none" THEN ctx
    ELSE XTickLoop(XTickAt(ctx, PyRound(TX(ctx, ticks[i])), Fmt(ticks[i]), start, end),
                   ticks, i + 1, start, end)

XAxisLabel(ctx, start, end) ==
    IF xlabel # <<>> THEN CenterDraw(ctx, Take(xlabel, end - start), -1, start, end)
    ELSE ctx

XAxisSpan(ctx, ticks, start, end) ==
    XAxisLabel(XTickLoop(FillRowSlice(ctx, -XaxHeight, start, end, "-"), ticks, 1, start, end),
               start, end)

XAxisOn(ctx) ==
    IF ctx.err # "none" THEN ctx
    ELSE IF ctx.c.xtick[1].cat THEN Fail(ctx, "TypeError")
    ELSE XAxisSpan(ctx, ctx.c.xtick[1].v,
                   PyRound(TX(ctx, ctx.c.xtick[1].v[1])),
                   PyRound(TX(ctx, Last(ctx.c.xtick[1].v))))

\* Figure._draw_x_axis: subscripting the set of labels raises TypeError.
DrawXAxis(ctx) == XAxisOn(NeedXTicks(NeedXScale(ctx)))

\* One turn of the loop of Figure._draw_y_axis: the tick whose position is pos.
YTickAt(ctx, pos, label, end) ==
    RjustDraw(SetCell(ctx, end - pos, ctx.c.yaw[1] - 1, "+"), label, end - pos,
              Truthy(ylabel) * 2, ctx.c.yaw[1] - 1)

\* The loop of Figure._draw_y_axis over the ticks from the i-th on.
RECURSIVE YTickLoop(_, _, _, _)
YTickLoop(ctx, ticks, i, end) ==
    IF i > Len(ticks) \/ ctx.err # "none" THEN ctx
    ELSE YTickLoop(YTickAt(ctx, PyRound(TY(ctx, ticks[i])) - 1, Fmt(ticks[i]), end),
                   ticks, i + 1, end)

YAxisLabel(ctx, start, end) ==
    IF ylabel # <<>> THEN CenterDrawCol(ctx, Take(ylabel, end - start), start, end, 0)
    ELSE ctx

YAxisSpan(ctx, ticks, start, end) ==
    YAxisLabel(YTickLoop(FillColSlice(ctx, -end - 1, -start, ctx.c.yaw[1] - 1, "|"),
                         ticks, 1, end),
               start, end)

YAxisOn(ctx) ==
    IF ctx.err # "none" THEN ctx
    ELSE IF ctx.c.ytick[1].cat THEN Fail(ctx, "TypeError")
    ELSE YAxisSpan(ctx, ctx.c.ytick[1].v,
                   PyRound(TY(ctx, ctx.c.ytick[1].v[1])),
                   PyRound(TY(ctx, Last(ctx.c.ytick[1].v))))

\* Figure._draw_y_axis
DrawYAxis(ctx) == YAxisOn(NeedYaxWidth(NeedYTicks(NeedYScale(ctx))))

\* draw_scatter: the pairs from the i-th on.
RECURSIVE ScatterLoop(_, _, _)
ScatterLoop(ctx, p, i) ==
    IF i > Min2(Len(p.x), Len(p.y)) \/ ctx.err # "none" THEN ctx
    ELSE ScatterLoop(SetCell(ctx, -PyRound(TY(ctx, p.y[i])) - 1, PyRound(TX(ctx, p.x[i])),
                             p.marker),
                     p, i + 1)

\* The inner loop of draw_line: the cells of one segment from the k-th on.
RECURSIVE SegmentLoop(_, _, _, _)
SegmentLoop(ctx, cells, k, marker) ==
    IF k > Len(cells) \/ ctx.err # "none" THEN ctx
    ELSE SegmentLoop(SetCell(ctx, -cells[k][2] - 1, cells[k][1], marker), cells, k + 1, marker)

\* draw_line: the segments from the one that starts at the i-th pair on.
RECURSIVE LineLoop(_, _, _)
LineLoop(ctx, p, i) ==
    IF i + 1 > Min2(Len(p.x), Len(p.y)) \/ ctx.err # "none" THEN ctx
    ELSE LineLoop(SegmentLoop(ctx,
                              plot_line_segment(PyRound(TX(ctx, p.x[i])),
                                                PyRound(TY(ctx, p.y[i])),
                                                PyRound(TX(ctx, p.x[i + 1])),
                                                PyRound(TY(ctx, p.y[i + 1]))),
                              1, p.marker),
                  p, i + 1)

\* draw_bar: the pairs from the i-th on.
RECURSIVE BarLoop(_, _, _)
BarLoop(ctx, p, i) ==
    IF i > Min2(Len(p.x), Len(p.y)) \/ ctx.err # "none" THEN ctx
    ELSE BarLoop(FillColSlice(ctx, -PyRound(TY(ctx, p.y[i])) - 1,
                              -PyInt(TY(ctx, SeqMin(p.y))),
                              PyRound(TX(ctx, p.x[i])), p.marker),
                 p, i + 1)

\* draw_hbar: the pairs from the i-th on.
RECURSIVE HbarLoop(_, _, _)
HbarLoop(ctx, p, i) ==
    IF i > Min2(Len(p.x), Len(p.y)) \/ ctx.err # "none" THEN ctx
    ELSE HbarLoop(FillRowSlice(ctx, -PyRound(TY(ctx, p.y[i])) - 1,
                               PyInt(TX(ctx, SeqMin(p.x))),
                               PyRound(TX(ctx, p.x[i])), p.marker),
                  p, i + 1)

\* One deferred drawer: the partial registered by scatter, line, bar or hbar.
\* min() of no values raises ValueError.
DrawPlot(ctx, p) ==
    IF ctx.err # "none" THEN ctx
    ELSE IF p.kind = "scatter" THEN ScatterLoop(ctx, p, 1)
    ELSE IF p.kind = "line" THEN LineLoop(ctx, p, 1)
    ELSE IF p.x = <<>> THEN Fail(ctx, "ValueError")
    ELSE IF p.kind = "bar" THEN BarLoop(ctx, p, 1)
    ELSE HbarLoop(ctx, p, 1)

\* The drawers run from the last registered to the first.
RECURSIVE DrawPlotsReversed(_, _, _)
DrawPlotsReversed(ctx, ps, i) ==
    IF i > Len(ps) \/ ctx.err # "none" THEN ctx
    ELSE DrawPlotsReversed(DrawPlot(ctx, ps[Len(ps) - i + 1]), ps, i + 1)

\* for plot in self._plots: plot()  -- the plots from the i-th on.
RECURSIVE DrawPlots(_, _, _)
DrawPlots(ctx, ps, i) ==
    IF i > Len(ps) \/ ctx.err # "none" THEN ctx
    ELSE DrawPlots(DrawPlot(ctx, ps[i]), ps, i + 1)

LegendWord == <<"L", "e", "g", "e", "n", "d">>

\* str.startswith / str.endswith on the legend locations the model passes.
StartsWithTop(loc) == loc \in {"topleft", "topright", "top"}
StartsWithBottom(loc) == loc \in {"bottomleft", "bottomright"}
EndsWithRight(loc) == loc \in {"topright", "bottomright"}
EndsWithLeft(loc) == loc \in {"topleft", "bottomleft"}

\* labelstrings without the space between the marker and the label.
LabelStringsNoSpace(ls) == [i \in 1..Len(ls) |-> <<ls[i][1]>> \o ls[i][2]]

\* labelstrings of Figure._draw_legend
LabelStrings(ls) == [i \in 1..Len(ls) |-> <<ls[i][1], " ">> \o ls[i][2]]

\* width of Figure._draw_legend
LegendWidth(ls) ==
    Max2(SeqMax([i \in 1..Len(ls) |-> Len(LabelStrings(ls)[i])]) + 2, Len(LegendWord) + 2)

\* top and left of Figure._draw_legend (read only where the location binds them)
LegendTop(ctx, ls) ==
    IF StartsWithTop(legendloc) THEN -PyInt(TY(ctx, SeqMax(FigY))) - 1
    ELSE -PyInt(TY(ctx, SeqMin(FigY))) - (Len(ls) + 2)
LegendLeft(ctx, ls) ==
    IF EndsWithRight(legendloc) THEN PyInt(TX(ctx, SeqMax(FigX))) - LegendWidth(ls) + 1
    ELSE PyInt(TX(ctx, SeqMin(FigX)))

\* The loop of Figure._draw_legend over the label strings from the i-th on.
RECURSIVE LegendLoop(_, _, _, _, _)
LegendLoop(ctx, strings, i, top, box) ==
    IF i > Len(strings) \/ ctx.err # "none" THEN ctx
    ELSE LegendLoop(SetRowSlice(ctx, top + (i - 1) + 1, box[1], box[1] + box[2],
                                <<"|">> \o Ljust(strings[i], box[2] - 2, " ") \o <<"|">>),
                    strings, i + 1, top, box)

\* The three writes of Figure._draw_legend: the box of width w at top, left.
LegendAt(ctx, ls, top, left, w) ==
    SetRowSlice(
        LegendLoop(
            SetRowSlice(ctx, top, left, left + w,
                        <<"+">> \o Center(LegendWord, w - 2, "-") \o <<"+">>),
            LabelStrings(ls), 1, top, <<left, w>>),
        top + Len(ls) + 1, left, left + w, <<"+">> \o Repeat("-", w - 2) \o <<"+">>)

\* Figure._draw_legend: a location that binds no top or no left is an
\* UnboundLocalError at the first write.
DrawLegend(ctx) ==
    IF ctx.err # "none" THEN ctx
    ELSE IF ~(StartsWithTop(legendloc) \/ StartsWithBottom(legendloc))
            \/ ~(EndsWithRight(legendloc) \/ EndsWithLeft(legendloc))
         THEN Fail(ctx, "UnboundLocalError")
    ELSE LegendAt(ctx, labels, LegendTop(ctx, labels), LegendLeft(ctx, labels),
                  LegendWidth(labels))

Filled(h, w, ch) == [r \in 1..h |-> [c \in 1..w |-> ch]]

\* np.empty((height, width), dtype="U1") filled with " "
Blank(h, w) == Filled(h, w, " ")

\* The title step of Figure.draw
DrawTitle(ctx) ==
    IF title # <<>> THEN CenterDraw(ctx, Take(title, width), 0, 0, Columns(ctx.cv))
    ELSE ctx

\* Figure.draw after the canvas is allocated: title, x axis, y axis, the
\* deferred plots in registration order, the legend if any plot was labelled.
LegendIfAny(ctx) == IF labels # <<>> THEN DrawLegend(ctx) ELSE ctx

DrawOnto(ctx) == LegendIfAny(DrawPlots(DrawYAxis(DrawXAxis(DrawTitle(ctx))), plots, 1))

\* Figure.draw with the cached slots c0: a negative dimension makes np.empty
\* raise ValueError before self._canvas is assigned.
Draw(c0) ==
    IF height < 0 \/ width < 0
    THEN [c |-> c0, cv |-> canvas, err |-> "ValueError"]
    ELSE DrawOnto([c |-> c0, cv |-> Blank(height, width), err |-> "none"])

\* "\n".join(["".join(row) for row in self._canvas.tolist()])
RECURSIVE JoinRows(_, _)
JoinRows(cv, i) ==
    IF i > Len(cv) THEN <<>>
    ELSE IF i = Len(cv) THEN cv[i]
    ELSE cv[i] \o <<"\n">> \o JoinRows(cv, i + 1)

Serialize(cv) == JoinRows(cv, 1)

-----------------------------------------------------------------------------
(* The calls on a Figure.                                                  *)

NoCall == [op |-> "none"]
NoPrev == <<>>

config == <<xlabel, ylabel, title, legendloc, xticklabel_length, width, height>>

Init ==
    /\ constructed = FALSE
    /\ xlabel = <<>> /\ ylabel = <<>> /\ title = <<>>
    /\ legendloc = "topright" /\ xticklabel_length = 7
    /\ width = 0 /\ height = 0
    /\ plots = <<>> /\ labels = <<>>
    /\ cache = CacheEmpty
    /\ canvas = <<>>
    /\ call = NoCall
    /\ result = "ok"
    /\ output = <<>>
    /\ prev = NoPrev
    /\ drawnWith = -1

\* Figure.__init__ with one of the argument records Args.  None and the
\* empty string (for a label), None and 0 (for a size) take the same branches
\* and are passed as <<>> and 0.
Construct(Args) ==
    /\ ~constructed
    /\ \E a \in Args :
        LET term_width == TermWidth
            term_height == TermHeight - 1
        IN  /\ xlabel' = a.xlabel
            /\ ylabel' = a.ylabel
            /\ title' = a.title
            /\ legendloc' = a.legendloc
            /\ xticklabel_length' = a.xticklabel_length
            /\ width' = (IF a.width # 0 THEN a.width ELSE term_width)
            /\ height' = (IF a.height # 0 THEN a.height ELSE term_height)
            /\ call' = [op |-> "init", args |-> a]
    /\ constructed' = TRUE
    /\ plots' = <<>>
    /\ labels' = <<>>
    /\ result' = "ok"
    /\ UNCHANGED <<cache, canvas, output, prev, drawnWith>>

\* Figure._prep with the legend entry appended before the lengths are compared.
PrepLabelFirst(x, y, marker, label) ==
    IF marker = <<>> THEN [err |-> "IndexError", marker |-> "", labels |-> labels]
    ELSE [err |-> IF Len(x) # Len(y) THEN "AssertionError" ELSE "none",
          marker |-> marker[1],
          labels |-> IF label # <<>> THEN Append(labels, <<marker[1], label>>) ELSE labels]

\* Figure._prep: the exception it raises ("none": none), the marker it
\* returns and self._labels when it is left.
Prep(x, y, marker, label) ==
    IF Len(x) # Len(y) THEN [err |-> "AssertionError", marker |-> "", labels |-> labels]
    ELSE IF marker = <<>> THEN [err |-> "IndexError", marker |-> "", labels |-> labels]
    ELSE [err |-> "none", marker |-> marker[1],
          labels |-> IF label # <<>> THEN Append(labels, <<marker[1], label>>) ELSE labels]

\* scatter / line / bar / hbar: _prep, then the drawer with its arguments is
\* appended to self._plots.
Register(kind, s, marker, label) ==
    LET p == Prep(s.x, s.y, marker, label)
    IN  /\ Len(plots) < MaxPlots
        /\ call' = [op |-> kind, x |-> s.x, y |-> s.y, marker |-> marker, label |-> label]
        /\ result' = (IF p.err = "none" THEN "ok" ELSE p.err)
        /\ labels' = p.labels
        /\ plots' = (IF p.err = "none"
                     THEN Append(plots, [kind |-> kind, x |-> s.x, y |-> s.y,
                                         xcat |-> s.xcat, ycat |-> s.ycat,
                                         marker |-> p.marker])
                     ELSE plots)
        /\ prev' = NoPrev
        /\ UNCHANGED <<constructed, xlabel, ylabel, title, legendloc, xticklabel_length,
                       width, height, cache, canvas, output, drawnWith>>

\* The default of the marker parameter of each registration method.
DefaultMarker(kind) ==
    IF kind = "scatter" THEN <<"o">> ELSE IF kind = "line" THEN <<"*">> ELSE <<"#">>

Scatter(S, M, L) ==
    \E s \in S, m \in M \cup {DefaultMarker("scatter")}, l \in L :
        /\ constructed
        /\ Register("scatter", s, m, l)
Line(S, M, L) ==
    \E s \in S, m \in M \cup {DefaultMarker("line")}, l \in L :
        /\ constructed
        /\ Register("line", s, m, l)
Bar(S, M, L) ==
    \E s \in S, m \in M \cup {DefaultMarker("bar")}, l \in L :
        /\ constructed
        /\ Register("bar", s, m, l)
Hbar(S, M, L) ==
    \E s \in S, m \in M \cup {DefaultMarker("hbar")}, l \in L :
        /\ constructed
        /\ Register("hbar", s, m, l)

\* __repr__ with a draw that empties self._plots once the drawers have run.
RenderedDraining(ctx) ==
    /\ call' = [op |-> "repr"]
    /\ cache' = ctx.c
    /\ canvas' = ctx.cv
    /\ result' = (IF ctx.err = "none" THEN "ok" ELSE ctx.err)
    /\ output' = (IF ctx.err = "none" THEN Serialize(ctx.cv) ELSE <<>>)
    /\ prev' = (IF call.op = "repr" THEN <<result, output>> ELSE NoPrev)
    /\ drawnWith' = (IF drawnWith = -1 THEN Len(plots) ELSE drawnWith)
    /\ plots' = <<>>
    /\ UNCHANGED <<constructed, xlabel, ylabel, title, legendloc, xticklabel_length,
                   width, height, labels>>

\* What __repr__ leaves when its draw ended in the context ctx.
Rendered(ctx) ==
    /\ call' = [op |-> "repr"]
    /\ cache' = ctx.c
    /\ canvas' = ctx.cv
    /\ result' = (IF ctx.err = "none" THEN "ok" ELSE ctx.err)
    /\ output' = (IF ctx.err = "none" THEN Serialize(ctx.cv) ELSE <<>>)
    /\ prev' = (IF call.op = "repr" THEN <<result, output>> ELSE NoPrev)
    /\ drawnWith' = (IF drawnWith = -1 THEN Len(plots) ELSE drawnWith)
    /\ UNCHANGED <<constructed, xlabel, ylabel, title, legendloc, xticklabel_length,
                   width, height, plots, labels>>

\* Figure.__repr__: draw, then the rows joined.  An exception of draw leaves
\* the slots that were filled and the canvas as far as it was drawn.
Render == constructed /\ Rendered(Draw(cache))

-----------------------------------------------------------------------------
(* The arguments the calls are made with.                                  *)

Series(x, y) == [x |-> x, y |-> y, xcat |-> FALSE, ycat |-> FALSE]

\* [1, 2, 3] against [1, 2, 3]
Diagonal == Series(<<10, 20, 30>>, <<10, 20, 30>>)
\* [0, 4] against [3, 1]
Falling == Series(<<0, 40>>, <<30, 10>>)
\* [10] against [10]: outside the ticks chosen for the series above
Outlier == Series(<<100>>, <<100>>)
\* [1, 2] against [1, 2, 3]
Mismatched == Series(<<10, 20>>, <<10, 20, 30>>)
\* two labels on the x axis, on the y axis
NominalX == [x |-> <<1, 2>>, y |-> <<10, 20>>, xcat |-> TRUE, ycat |-> FALSE]
NominalY == [x |-> <<10, 20>>, y |-> <<1, 2>>, xcat |-> FALSE, ycat |-> TRUE]

ShortLabel == <<"a">>
LongLabel == <<"s", "e", "r", "i", "e", "s">>
\* A label whose legend line is wider than the canvas.
WideLabel == [i \in 1..CanvasWidth |-> "w"]
TwoCharMarker == <<"x", "y">>

Arg(w, h, loc, len, xl, yl, t) ==
    [width |-> w, height |-> h, legendloc |-> loc, xticklabel_length |-> len,
     xlabel |-> xl, ylabel |-> yl, title |-> t]

\* Every kind of argument __init__ accepts, valid or not: the size omitted,
\* explicit or negative, an unknown legend location, a tick label length of 0.
AnyArgs ==
    {Arg(sz[1], sz[2], opt[1], opt[2], <<>>, <<>>, <<>>) :
        sz \in {<<0, 0>>, <<CanvasWidth, CanvasHeight>>, <<-1, CanvasHeight>>,
                <<CanvasWidth, -1>>},
        opt \in {<<"topright", 7>>, <<"middle", 7>>, <<"topright", 0>>}}

\* Valid arguments: an explicit size, either corner for the legend, the axis
\* labels and the title set or not.
ValidArgs ==
    {Arg(CanvasWidth, CanvasHeight, a[1], 7, a[2], a[3], a[4]) :
        a \in {<<"topright", <<>>, <<>>, <<>>>>,
               <<"topright", <<"x">>, <<"y">>, <<"T", "i">>>>,
               <<"bottomleft", <<>>, <<>>, <<"T", "i">>>>,
               <<"bottomleft", <<"x">>, <<"y">>, <<>>>>}}

Next ==
    \/ Construct(AnyArgs)
    \/ Scatter({Diagonal, Outlier, NominalX, NominalY, Mismatched}, {}, {<<>>, ShortLabel})
    \/ Line({Diagonal, Mismatched}, {}, {<<>>, ShortLabel})
    \/ Bar({Diagonal, Mismatched}, {}, {<<>>})
    \/ Hbar({Diagonal, Mismatched}, {<<>>}, {<<>>})
    \/ Render

Spec == Init /\ [][Next]_vars

NextDraw ==
    \/ Construct(ValidArgs)
    \/ Scatter({Diagonal}, {}, {<<>>})
    \/ Line({Diagonal, Falling}, {}, {ShortLabel, LongLabel})
    \/ Bar({Diagonal}, {}, {<<>>, WideLabel})
    \/ Hbar({Diagonal}, {TwoCharMarker}, {<<>>})
    \/ Render

SpecDraw == Init /\ [][NextDraw]_vars

-----------------------------------------------------------------------------
(* Properties.                                                             *)

Kinds == {"scatter", "line", "bar", "hbar"}

LegendLocs == {"topleft", "topright", "bottomleft", "bottomright"}

\* <<result, output>> of a __repr__ whose draw ended in ctx.
Outcome(ctx) ==
    <<IF ctx.err = "none" THEN "ok" ELSE ctx.err,
      IF ctx.err = "none" THEN Serialize(ctx.cv) ELSE <<>> >>

\* C1: a scatter, line, bar or hbar call whose x and y differ in length
\* fails, and self._plots and self._labels are after it what they were
\* before, whether or not a label was passed.
C1_MismatchLeavesFigureUnchanged ==
    [][(call'.op \in Kinds /\ Len(call'.x) # Len(call'.y))
        => (result' # "ok" /\ plots' = plots /\ labels' = labels)]_vars

\* A mismatched call with a label has failed on a Figure that holds a plot
\* and a legend entry registered earlier.
C1_Witness ==
    /\ call.op \in Kinds
    /\ Len(call.x) # Len(call.y)
    /\ call.label # <<>>
    /\ result = "AssertionError"
    /\ Len(plots) >= 1
    /\ Len(labels) >= 1

ValidFigure ==
    width > 0 /\ height > 0 /\ legendloc \in LegendLocs /\ xticklabel_length >= 1

\* C2: on a Figure built with valid arguments and holding numeric plots, a
\* __repr__ that follows a registration made after the first __repr__ returns
\* what the first __repr__ of a Figure with the same arguments and the same
\* registrations returns (its slots are all empty).
C2_RenderAfterRegistrationIsFresh ==
    (/\ call.op = "repr"
     /\ drawnWith >= 1 /\ drawnWith < Len(plots)
     /\ ValidFigure
     /\ is_numerical(FigXCat) /\ is_numerical(FigYCat))
        => <<result, output>> = Outcome(Draw(CacheEmpty))

\* C3: a __repr__ that directly follows a __repr__ ends as that one did and
\* returns the same string.
C3_RenderIdempotent ==
    (call.op = "repr" /\ prev # NoPrev) => prev = <<result, output>>

\* A second __repr__ in a row has returned a grid with a plot drawn.
C3_Witness ==
    /\ call.op = "repr"
    /\ prev # NoPrev
    /\ result = "ok"
    /\ Len(plots) >= 1
    /\ \E i \in 1..Len(output) : output[i] = plots[1].marker

\* C5: __init__ fails when it is passed a negative width or height, a legend
\* location that is none of the four corners, or an x tick label length
\* below 1.
C5_InvalidArgumentsRejected ==
    (call.op = "init"
        /\ (\/ call.args.width < 0
            \/ call.args.height < 0
            \/ call.args.legendloc \notin LegendLocs
            \/ call.args.xticklabel_length < 1))
        => result # "ok"

AllLabels(flags) == flags # <<>> /\ \A i \in 1..Len(flags) : flags[i]

\* C6: with valid arguments and every x value (or every y value) a label,
\* the other axis numeric, __repr__ returns a grid.
C6_NominalAxisRenders ==
    (/\ call.op = "repr"
     /\ ValidFigure
     /\ \/ AllLabels(FigXCat) /\ is_numerical(FigYCat)
        \/ AllLabels(FigYCat) /\ is_numerical(FigXCat))
        => result = "ok"

\* The positions of the line breaks in a string.
Breaks(str) == {i \in 1..Len(str) : str[i] = "\n"}

\* C4: a __repr__ that returns, on a Figure of positive width and height with
\* numeric plots, returns `height` lines of `width` characters each, joined
\* by line breaks.
C4_GridShape ==
    (call.op = "repr" /\ result = "ok" /\ width > 0 /\ height > 0)
        => /\ Len(output) = height * (width + 1) - 1
           /\ Breaks(output) = {k * (width + 1) : k \in 1..(height - 1)}

\* A grid was returned for two plots with a title and a legend.
C4_Witness ==
    /\ call.op = "repr" /\ result = "ok"
    /\ Len(plots) = 2 /\ labels # <<>> /\ title # <<>>
    /\ Len(output) > 0

\* Two line plots, each registered with a label, drawn with the legend in the
\* top right corner.
TwoLabelledLines ==
    /\ call.op = "repr" /\ result = "ok"
    /\ legendloc = "topright"
    /\ Len(plots) = 2 /\ Len(labels) = 2
    /\ \A i \in 1..2 : plots[i].kind = "line"

\* marker + " " + label of the i-th legend entry
LegendLine(i) == <<labels[i][1], " ">> \o labels[i][2]

LongestLine == Max2(Len(LegendLine(1)), Len(LegendLine(2)))

Cells(r, c, w) == SubSeq(canvas[r], c, c + w - 1)

\* The two content lines of a box of width w, under row r from column c.
ContentAt(r, c, w) ==
    \A i \in 1..2 : Cells(r + i, c, w) = <<"|">> \o Ljust(LegendLine(i), w - 2, " ") \o <<"|">>

\* The whole box of width w with its top left corner at row r, column c.
BoxAt(r, c, w) ==
    /\ Cells(r, c, w) = <<"+">> \o Center(LegendWord, w - 2, "-") \o <<"+">>
    /\ ContentAt(r, c, w)
    /\ Cells(r + 3, c, w) = <<"+">> \o Repeat("-", w - 2) \o <<"+">>

C7_WitnessLong ==
    /\ TwoLabelledLines
    /\ Len(LegendLine(1)) # Len(LegendLine(2))
    /\ LongestLine > Len(LegendWord)

\* The slots as the last __repr__ left them, with an empty canvas of ch.
Fresh(ch) == [c |-> cache, cv |-> Filled(height, width, ch), err |-> "none"]

\* The canvas after the drawer of plot p alone has run with the marker "@":
\* the cells it writes hold "@".
MarkCanvas(p) == DrawPlot(Fresh(" "), [p EXCEPT !.marker = "@"]).cv

\* The canvas after the legend alone is drawn over "@": the cells it writes
\* hold something else.
LegendCanvas == IF labels # <<>> THEN DrawLegend(Fresh("@")).cv ELSE Filled(height, width, "@")

\* The last registered plot whose drawer writes the cell (0: none does).
LastWriter(marks, r, c) ==
    IF \E i \in 1..Len(marks) : marks[i][r][c] = "@"
    THEN CHOOSE i \in 1..Len(marks) :
             /\ marks[i][r][c] = "@"
             /\ \A j \in (i + 1)..Len(marks) : marks[j][r][c] # "@"
    ELSE 0

LastWriteWins(marks, legend) ==
    \A r \in 1..height, c \in 1..width :
        IF legend[r][c] # "@" THEN canvas[r][c] = legend[r][c]
        ELSE LastWriter(marks, r, c) > 0 => canvas[r][c] = plots[LastWriter(marks, r, c)].marker

\* C8: in the grid a __repr__ returns, a cell the legend writes holds the
\* legend's character; any other cell that plot drawers write holds the marker
\* of the last registered plot among them.
C8_LastWriteWins ==
    (call.op = "repr" /\ result = "ok")
        => LastWriteWins([i \in 1..Len(plots) |-> MarkCanvas(plots[i])], LegendCanvas)

Overlaps(marks, legend) ==
    /\ \E r \in 1..height, c \in 1..width :
           marks[1][r][c] = "@" /\ marks[2][r][c] = "@" /\ legend[r][c] = "@"
    /\ \E r \in 1..height, c \in 1..width :
           legend[r][c] # "@" /\ \E i \in 1..2 : marks[i][r][c] = "@"

\* A grid was returned in which two plots with different markers write one
\* cell, and the legend writes a cell that a plot writes.
C8_Witness ==
    /\ call.op = "repr" /\ result = "ok"
    /\ Len(plots) = 2 /\ plots[1].marker # plots[2].marker
    /\ Overlaps([i \in 1..Len(plots) |-> MarkCanvas(plots[i])], LegendCanvas)

\* The row (from 1 at the top) in which draw_scatter marks a point of height v.
ScatterRow(v) == height - 1 - PyRound(TY([c |-> cache], v)) + 1

\* The rows of the y axis column that hold a piece of the axis.
AxisRows == {r \in 1..height : canvas[r][cache.yaw[1]] \in {"|", "+"}}

TicksOnAxis(ticks) ==
    /\ \A i \in 1..Len(ticks) : canvas[ScatterRow(ticks[i])][cache.yaw[1]] = "+"
    /\ AxisRows = ScatterRow(Last(ticks))..ScatterRow(ticks[1])

\* C9: for numeric y data, drawn with or without a title, the mark "+" of
\* every y tick is in the row where a point of that height is plotted, and
\* the axis line runs exactly from the row of the last tick to the row of the
\* first.
C9_TicksOnAxisLine ==
    (/\ call.op = "repr" /\ result = "ok"
     /\ drawnWith = Len(plots)
     /\ is_numerical(FigYCat))
        => TicksOnAxis(cache.ytick[1].v)

\* The cells draw_hbar is to mark for the i-th pair of plot p: those of the
\* row of y from the column of the least x through the column of x.
HbarCells(p, i) ==
    {<<ScatterRow(p.y[i]), col + 1>> :
        col \in PyInt(TX([c |-> cache], SeqMin(p.x)))..PyRound(TX([c |-> cache], p.x[i]))}

\* C10: an hbar plot drawn alone marks, for every pair, every cell of its row
\* from the column of the least x through the column of its own x.
C10_HbarMarksThroughOwnCell ==
    (/\ call.op = "repr" /\ result = "ok"
     /\ Len(plots) = 1 /\ plots[1].kind = "hbar"
     /\ drawnWith = 1 /\ labels = <<>>)
        => \A i \in 1..Len(plots[1].x) :
               \A cell \in HbarCells(plots[1], i) : canvas[cell[1]][cell[2]] = plots[1].marker
=============================================================================
